---- MODULE Spec2Model ----
(***************************************************************************)
(* Model of the extrinsic calibration and coordinate-transformation engine *)
(* of the overhead perception system:                                      *)
(*   src/world_frame_calibration.py          WorldFrameCalibrator          *)
(*   src/xy_transform/coordinate_transform.py CoordinateTransformer        *)
(*   src/xy_transform/calibration_click_tool.py CalibrationClickTool       *)
(*                                                                         *)
(* Numbers.  Python floats are modelled as fixed-point numbers: the real   *)
(* value r is the integer r * Scale.  Products and quotients are rounded   *)
(* to the nearest representable value, as IEEE arithmetic rounds.  The     *)
(* statistics of validate_calibration are exact rationals; a square root   *)
(* of a rational q is carried as the value  Sqrt(q)  (q is its square).    *)
(* Angles are multiples of 90 degrees, for which cos and sin are exact.    *)
(*                                                                         *)
(* Python values.  A value that may be None is tagged with its type:       *)
(* None, Float(v), NdArray(v), ListV(v), TupleV(v), so that what JSON does *)
(* to a tuple or an array is visible.                                      *)
(***************************************************************************)
EXTENDS Integers, Sequences, FiniteSets, TLC

VARIABLES
    cal,       \* the session's WorldFrameCalibrator (its attributes)
    fresh,     \* a second WorldFrameCalibrator, constructed to load the file
    file,      \* contents of output_dir/calibration.json (None: no file)
    ct,        \* a CoordinateTransformer (its attributes)
    ret,       \* the last call: operation, arguments, result or exception
    pose,      \* history: arguments of the define call that built cal's transform
    saved,     \* history: the calibrator as it was at the last successful save
    point,     \* the caller's array handed to the last transform, after the call
    session,   \* interactive_calibration_session: where it stands, its loop
    tool       \* a CalibrationClickTool (its attributes)

vars == <<cal, fresh, file, ct, ret, pose, saved, point, session, tool>>

-----------------------------------------------------------------------------
(* Bounds and program constants *)

\* centimetres per metre: the /100 and *100 of the unit conversions
CM_PER_M == 100

\* resolution of the fixed-point numbers: 1/Scale
Scale == CM_PER_M

\* longest calibration-point history explored
MaxPoints == 3

\* longest history explored together with save and load
MaxStorePoints == 2

\* most calibration points an interactive session is asked for
MaxSessionPoints == 2

\* most points clicked in the click tool
MaxClicks == 2

-----------------------------------------------------------------------------
(* Python values *)

None == [t |-> "None"]
Float(v) == [t |-> "float", v |-> v]
NdArray(v) == [t |-> "ndarray", v |-> v]
ListV(v) == [t |-> "list", v |-> v]
TupleV(v) == [t |-> "tuple", v |-> v]
Str(v) == [t |-> "str", v |-> v]
IsNone(x) == x.t = "None"

\* the result of a call that returned normally / that raised
Returned(op, args, value) ==
    [op |-> op, args |-> args, raised |-> FALSE, exc |-> None, value |-> value]
Raised(op, args, type, msg) ==
    [op |-> op, args |-> args, raised |-> TRUE,
     exc |-> [t |-> type, msg |-> msg], value |-> None]

-----------------------------------------------------------------------------
(* Fixed-point arithmetic *)

Abs(x) == IF x < 0 THEN -x ELSE x

\* a / b rounded to the nearest integer (b > 0)
RDiv(a, b) == (2 * a + b) \div (2 * b)

\* product of two fixed-point numbers
FMul(a, b) == RDiv(a * b, Scale)

RECURSIVE SqrtIter(_, _, _)
SqrtIter(n, lo, hi) ==
    IF lo >= hi THEN lo
    ELSE LET mid == (lo + hi + 1) \div 2
         IN IF mid * mid <= n THEN SqrtIter(n, mid, hi)
                              ELSE SqrtIter(n, lo, mid - 1)

\* integer square root, rounded to nearest
ISqrt(n) ==
    LET f == SqrtIter(n, 0, IF n < 40000 THEN n ELSE 40000)
    IN IF n - f * f > f THEN f + 1 ELSE f

\* np.cos / np.sin of np.radians(deg), deg a multiple of 90
CosDeg(deg) ==
    LET a == deg % 360
    IN IF a = 0 THEN Scale ELSE IF a = 180 THEN -Scale ELSE 0
SinDeg(deg) ==
    LET a == deg % 360
    IN IF a = 90 THEN Scale ELSE IF a = 270 THEN -Scale ELSE 0

\* 3x3 matrix product (the @ of two 3x3 arrays)
MatMul(A, B) ==
    [i \in 1..3 |-> [j \in 1..3 |->
        RDiv(A[i][1] * B[1][j] + A[i][2] * B[2][j] + A[i][3] * B[3][j], Scale)]]

\* 4x4 matrix times homogeneous 4-vector
MatVec4(T, h) ==
    [i \in 1..4 |->
        RDiv(T[i][1] * h[1] + T[i][2] * h[2] + T[i][3] * h[3] + T[i][4] * h[4],
             Scale)]

\* 3x3 matrix times 3-vector
MatVec3(R, p) ==
    [i \in 1..3 |-> RDiv(R[i][1] * p[1] + R[i][2] * p[2] + R[i][3] * p[3], Scale)]

\* np.linalg.norm of a 3-vector
Norm(d) == ISqrt(d[1] * d[1] + d[2] * d[2] + d[3] * d[3])

VecSub(a, b) == [i \in 1..3 |-> a[i] - b[i]]

-----------------------------------------------------------------------------
(* WorldFrameCalibrator: construction, camera set-up, pose definition *)

\* WorldFrameCalibrator.__init__
NewCalibrator ==
    [camera_intrinsics     |-> None,
     depth_scale           |-> None,
     camera_height_cm      |-> None,
     camera_position_world |-> None,
     rotation_matrix       |-> None,
     translation_vector    |-> None,
     T_world_camera        |-> None,
     calibration_error_cm  |-> None,
     calibration_points    |-> <<>>]

\* setup_camera: depth scale and colour-stream intrinsics of the pipeline
setup_camera(c, intrinsics, scale) ==
    [c EXCEPT !.depth_scale = Float(scale),
              !.camera_intrinsics = intrinsics]

\* elementary rotations, angle in degrees
RotX(deg) ==
    << <<Scale, 0, 0>>,
       <<0, CosDeg(deg), -SinDeg(deg)>>,
       <<0, SinDeg(deg), CosDeg(deg)>> >>
RotY(deg) ==
    << <<CosDeg(deg), 0, SinDeg(deg)>>,
       <<0, Scale, 0>>,
       <<-SinDeg(deg), 0, CosDeg(deg)>> >>
RotZ(deg) ==
    << <<CosDeg(deg), -SinDeg(deg), 0>>,
       <<SinDeg(deg), CosDeg(deg), 0>>,
       <<0, 0, Scale>> >>

\* variant: only the Z axis is flipped
R_flip_z_only ==
    << <<Scale, 0, 0>>, <<0, Scale, 0>>, <<0, 0, -Scale>> >>

\* the fixed axis flip: camera Z (forward, down) to world -Z
R_camera_to_world ==
    << <<Scale, 0, 0>>, <<0, -Scale, 0>>, <<0, 0, -Scale>> >>

\* variant: the elementary rotations are composed in the opposite order
BuildRotationReversed(tilt, pan, roll) ==
    MatMul(MatMul(MatMul(RotX(tilt), RotY(pan)), RotZ(roll)), R_camera_to_world)

\* rotation_matrix = (Rz @ Ry @ Rx) @ R_camera_to_world
BuildRotation(tilt, pan, roll) ==
    MatMul(MatMul(MatMul(RotZ(roll), RotY(pan)), RotX(tilt)), R_camera_to_world)

\* camera_position_world: centimetres to metres
PositionWorld(height_cm, x_cm, y_cm) ==
    <<RDiv(x_cm, CM_PER_M), RDiv(y_cm, CM_PER_M), RDiv(height_cm, CM_PER_M)>>

\* np.eye(4) with [:3,:3] = R and [:3,3] = position
BuildTransform(R, pos) ==
    << <<R[1][1], R[1][2], R[1][3], pos[1]>>,
       <<R[2][1], R[2][2], R[2][3], pos[2]>>,
       <<R[3][1], R[3][2], R[3][3], pos[3]>>,
       <<0, 0, 0, Scale>> >>

\* variant: the new rotation is composed with the rotation already held
define_onto_held_rotation(c, height_cm, x_cm, y_cm, tilt, pan, roll) ==
    LET pos == PositionWorld(height_cm, x_cm, y_cm)
        R   == IF IsNone(c.rotation_matrix) THEN BuildRotation(tilt, pan, roll)
               ELSE MatMul(BuildRotation(tilt, pan, roll), c.rotation_matrix.v)
    IN [c EXCEPT !.camera_height_cm      = Float(height_cm),
                 !.camera_position_world = NdArray(pos),
                 !.rotation_matrix       = NdArray(R),
                 !.translation_vector    = NdArray(<< <<pos[1]>>, <<pos[2]>>, <<pos[3]>> >>),
                 !.T_world_camera        = NdArray(BuildTransform(R, pos))]

\* define_simple_overhead_calibration
define_simple_overhead_calibration(c, height_cm, x_cm, y_cm, tilt, pan, roll) ==
    LET pos == PositionWorld(height_cm, x_cm, y_cm)
        R   == BuildRotation(tilt, pan, roll)
    IN [c EXCEPT !.camera_height_cm      = Float(height_cm),
                 !.camera_position_world = NdArray(pos),
                 !.rotation_matrix       = NdArray(R),
                 !.translation_vector    = NdArray(<< <<pos[1]>>, <<pos[2]>>, <<pos[3]>> >>),
                 !.T_world_camera        = NdArray(BuildTransform(R, pos))]

-----------------------------------------------------------------------------
(* Deprojection and the camera-to-world transform *)

\* variant: offsets are measured from the centre of the image, not from the
\* principal point
DeprojectImageCentre(intr, u, v, depth_m) ==
    <<FMul(depth_m, RDiv((u - intr.width \div 2) * Scale, intr.fx)),
      FMul(depth_m, RDiv((v - intr.height \div 2) * Scale, intr.fy)),
      depth_m>>

\* rs.rs2_deproject_pixel_to_point for an undistorted pinhole model
Deproject(intr, u, v, depth_m) ==
    <<FMul(depth_m, RDiv((u - intr.ppx) * Scale, intr.fx)),
      FMul(depth_m, RDiv((v - intr.ppy) * Scale, intr.fy)),
      depth_m>>

\* pixel_to_camera_coordinates(u, v, depth_meters)
pixel_to_camera_coordinates(c, u, v, depth_m) ==
    IF IsNone(c.camera_intrinsics)
    THEN Raised("pixel_to_camera_coordinates", <<u, v, depth_m>>,
                "ValueError", "Camera intrinsics not set")
    ELSE Returned("pixel_to_camera_coordinates", <<u, v, depth_m>>,
                  NdArray(Deproject(c.camera_intrinsics, u, v, depth_m)))

\* variant: the argument array is scaled to centimetres in place
PointScaledInPlace(p) == <<p[1] * CM_PER_M, p[2] * CM_PER_M, p[3] * CM_PER_M>>

\* the caller's array after a transform call: np.append and @ allocate their
\* results, the argument is only read
PointAfterCall(p) == p

\* variant: the point is scaled to centimetres before the multiplication,
\* while the translation of T stays in metres
ApplyTransformCmFirst(T, p, return_cm) ==
    LET w == MatVec4(T, <<p[1] * CM_PER_M, p[2] * CM_PER_M, p[3] * CM_PER_M, Scale>>)
    IN IF return_cm THEN <<w[1], w[2], w[3]>>
       ELSE <<RDiv(w[1], CM_PER_M), RDiv(w[2], CM_PER_M), RDiv(w[3], CM_PER_M)>>

\* variant: for centimetres the rotated point is scaled and the translation
\* is added unscaled
ApplyTransformRotationScaled(T, p, return_cm) ==
    LET w == MatVec4(T, <<p[1], p[2], p[3], Scale>>)
        r == MatVec4(T, <<p[1], p[2], p[3], 0>>)
    IN IF return_cm THEN <<r[1] * CM_PER_M + T[1][4], r[2] * CM_PER_M + T[2][4],
                           r[3] * CM_PER_M + T[3][4]>>
                    ELSE <<w[1], w[2], w[3]>>

\* the transform applied to a camera-frame point (metres)
ApplyTransform(T, p, return_cm) ==
    LET w == MatVec4(T, <<p[1], p[2], p[3], Scale>>)
    IN IF return_cm THEN <<w[1] * CM_PER_M, w[2] * CM_PER_M, w[3] * CM_PER_M>>
                    ELSE <<w[1], w[2], w[3]>>

\* camera_to_world_coordinates(point_camera, return_cm)
camera_to_world_coordinates(c, p, return_cm) ==
    IF IsNone(c.T_world_camera)
    THEN Raised("camera_to_world_coordinates", <<p, return_cm>>,
                "ValueError", "Calibration not set")
    ELSE Returned("camera_to_world_coordinates", <<p, return_cm>>,
                  NdArray(ApplyTransform(c.T_world_camera.v, p, return_cm)))

\* the pixel positions visited by the two range(0, n, subsample) loops,
\* rows outer, columns inner; a position is <<u, v>>
RECURSIVE RangeStep(_, _, _)
RangeStep(from, n, step) ==
    IF from >= n THEN <<>> ELSE <<from>> \o RangeStep(from + step, n, step)

RECURSIVE Flatten(_)
Flatten(ss) == IF ss = <<>> THEN <<>> ELSE Head(ss) \o Flatten(Tail(ss))

\* variant: columns outer, rows inner
ScanPositionsColumnMajor(height, width, subsample) ==
    LET rows == RangeStep(0, height, subsample)
        cols == RangeStep(0, width, subsample)
    IN Flatten([j \in 1..Len(cols) |->
                   [i \in 1..Len(rows) |-> <<cols[j], rows[i]>>]])

ScanPositions(height, width, subsample) ==
    LET rows == RangeStep(0, height, subsample)
        cols == RangeStep(0, width, subsample)
    IN Flatten([i \in 1..Len(rows) |->
                   [j \in 1..Len(cols) |-> <<cols[j], rows[i]>>]])

\* the inclusive/exclusive test of the distance filter: skip when TRUE
BeyondMaxDistance(depth_cm, max_distance_cm) == depth_cm > max_distance_cm

\* variant: a pixel without a depth reading is projected like any other
PixelStepProjectingZero(c, depth_image, u, v, max_distance_cm) ==
    LET depth_value == depth_image[v + 1][u + 1]
    IN IF IsNone(c.depth_scale)
       THEN [k |-> "raise", exc |-> [t |-> "TypeError", msg |-> "unsupported operand"]]
       ELSE LET depth_meters == depth_value * c.depth_scale.v
                depth_cm     == depth_meters * CM_PER_M
            IN IF BeyondMaxDistance(depth_cm, max_distance_cm) THEN [k |-> "skip"]
               ELSE LET pc == pixel_to_camera_coordinates(c, u, v, depth_meters)
                    IN IF pc.raised THEN [k |-> "raise", exc |-> pc.exc]
                       ELSE LET pw == camera_to_world_coordinates(c, pc.value.v, TRUE)
                            IN IF pw.raised THEN [k |-> "raise", exc |-> pw.exc]
                               ELSE [k |-> "point", p |-> pw.value.v]

\* one iteration of the loop body of depth_image_to_world_points:
\* "skip" (continue), "raise" (an exception leaves the loop) or "point"
PixelStep(c, depth_image, u, v, max_distance_cm) ==
    LET depth_value == depth_image[v + 1][u + 1]
    IN IF depth_value = 0 THEN [k |-> "skip"]
       ELSE IF IsNone(c.depth_scale)
       THEN [k |-> "raise", exc |-> [t |-> "TypeError", msg |-> "unsupported operand"]]
       ELSE LET depth_meters == depth_value * c.depth_scale.v
                depth_cm     == depth_meters * CM_PER_M
            IN IF BeyondMaxDistance(depth_cm, max_distance_cm) THEN [k |-> "skip"]
               ELSE LET pc == pixel_to_camera_coordinates(c, u, v, depth_meters)
                    IN IF pc.raised THEN [k |-> "raise", exc |-> pc.exc]
                       ELSE LET pw == camera_to_world_coordinates(c, pc.value.v, TRUE)
                            IN IF pw.raised THEN [k |-> "raise", exc |-> pw.exc]
                               ELSE [k |-> "point", p |-> pw.value.v]

RECURSIVE ScanLoop(_, _, _, _, _, _)
ScanLoop(c, depth_image, positions, i, max_distance_cm, points_world) ==
    IF i > Len(positions) THEN [k |-> "done", points |-> points_world]
    ELSE LET s == PixelStep(c, depth_image, positions[i][1], positions[i][2],
                            max_distance_cm)
         IN IF s.k = "raise" THEN s
            ELSE ScanLoop(c, depth_image, positions, i + 1, max_distance_cm,
                          IF s.k = "point" THEN Append(points_world, s.p)
                          ELSE points_world)

\* depth_image_to_world_points(depth_frame, subsample, max_distance_cm)
depth_image_to_world_points(c, depth_image, subsample, max_distance_cm) ==
    LET height == Len(depth_image)
        width  == Len(depth_image[1])
        args   == <<depth_image, subsample, max_distance_cm>>
        r      == ScanLoop(c, depth_image, ScanPositions(height, width, subsample),
                           1, max_distance_cm, <<>>)
    IN IF r.k = "raise"
       THEN Raised("depth_image_to_world_points", args, r.exc.t, r.exc.msg)
       ELSE Returned("depth_image_to_world_points", args, NdArray(r.points))

-----------------------------------------------------------------------------
(* CoordinateTransformer *)

\* variant: the transformer flips the Z axis only
build_rotation_matrix_flip_z_only(t) ==
    [t EXCEPT !.R_cam_to_world =
        NdArray(MatMul(MatMul(MatMul(RotZ(t.roll_deg), RotY(t.yaw_deg)),
                              RotX(t.pitch_deg)),
                       R_flip_z_only))]

\* _build_rotation_matrix: (Rz(roll) @ Ry(yaw) @ Rx(pitch)) @ R_flip
build_rotation_matrix(t) ==
    [t EXCEPT !.R_cam_to_world =
        NdArray(MatMul(MatMul(MatMul(RotZ(t.roll_deg), RotY(t.yaw_deg)),
                              RotX(t.pitch_deg)),
                       R_camera_to_world))]

\* CoordinateTransformer.__init__(camera_height_m, pitch_deg, roll_deg, yaw_deg)
NewTransformer(camera_height_m, pitch_deg, roll_deg, yaw_deg) ==
    build_rotation_matrix(
        [camera_height  |-> camera_height_m,
         pitch_deg      |-> pitch_deg,
         roll_deg       |-> roll_deg,
         yaw_deg        |-> yaw_deg,
         intrinsics     |-> None,
         R_cam_to_world |-> None])

\* set_intrinsics
set_intrinsics(t, intrinsics) == [t EXCEPT !.intrinsics = intrinsics]

\* variant: without intrinsics the pixel is taken to lie on the optical axis
pixel_to_camera_coords_unchecked(t, pixel_x, pixel_y, depth_m) ==
    Returned("pixel_to_camera_coords", <<pixel_x, pixel_y, depth_m>>,
             NdArray(IF IsNone(t.intrinsics) THEN <<0, 0, depth_m>>
                     ELSE Deproject(t.intrinsics, pixel_x, pixel_y, depth_m)))

\* pixel_to_camera_coords(pixel_x, pixel_y, depth_m)
pixel_to_camera_coords(t, pixel_x, pixel_y, depth_m) ==
    IF IsNone(t.intrinsics)
    THEN Raised("pixel_to_camera_coords", <<pixel_x, pixel_y, depth_m>>,
                "ValueError", "Camera intrinsics not set")
    ELSE Returned("pixel_to_camera_coords", <<pixel_x, pixel_y, depth_m>>,
                  NdArray(Deproject(t.intrinsics, pixel_x, pixel_y, depth_m)))

\* camera_to_world_coords(camera_coords): rotate, then add the height to z
camera_to_world_coords(t, camera_coords) ==
    LET w == MatVec3(t.R_cam_to_world.v, camera_coords)
    IN Returned("camera_to_world_coords", <<camera_coords>>,
                NdArray(<<w[1], w[2], w[3] + t.camera_height>>))

\* update_tilt(pitch_deg, roll_deg, yaw_deg): None keeps the current angle
update_tilt(t, pitch_deg, roll_deg, yaw_deg) ==
    build_rotation_matrix(
        [t EXCEPT !.pitch_deg = IF IsNone(pitch_deg) THEN @ ELSE pitch_deg.v,
                  !.roll_deg  = IF IsNone(roll_deg) THEN @ ELSE roll_deg.v,
                  !.yaw_deg   = IF IsNone(yaw_deg) THEN @ ELSE yaw_deg.v])

-----------------------------------------------------------------------------
(* Exact rationals, for the statistics *)

RECURSIVE GCD(_, _)
GCD(a, b) == IF b = 0 THEN a ELSE GCD(b, a % b)

\* the rational n/d in lowest terms, d > 0
Rat(n, d) ==
    LET g == GCD(Abs(n), Abs(d))
        s == IF d < 0 THEN -1 ELSE 1
    IN [num |-> s * (n \div g), den |-> s * (d \div g)]

RatInt(n) == [num |-> n, den |-> 1]
RatAdd(a, b) == Rat(a.num * b.den + b.num * a.den, a.den * b.den)
RatSub(a, b) == Rat(a.num * b.den - b.num * a.den, a.den * b.den)
RatMul(a, b) == Rat(a.num * b.num, a.den * b.den)
RatLeq(a, b) == a.num * b.den <= b.num * a.den

\* the square root of the rational q, carried by its square
SqrtOf(q) == [sqrt_of |-> q]

RECURSIVE RatSum(_)
RatSum(qs) == IF qs = <<>> THEN RatInt(0) ELSE RatAdd(Head(qs), RatSum(Tail(qs)))

\* np.mean of a non-empty sequence of rationals
RatMean(qs) == RatMul(RatSum(qs), Rat(1, Len(qs)))

\* variant: the sample standard deviation (ddof = 1)
StdDivisorSample(n) == IF n > 1 THEN n - 1 ELSE n

\* the divisor of np.std (ddof = 0): the number of samples
StdDivisor(n) == n

RECURSIVE SeqMax(_)
SeqMax(xs) ==
    IF Len(xs) = 1 THEN xs[1]
    ELSE LET m == SeqMax(Tail(xs)) IN IF xs[1] >= m THEN xs[1] ELSE m

\* variant: the first error is taken for the smallest
SeqFirst(xs) == xs[1]

RECURSIVE SeqMin(_)
SeqMin(xs) ==
    IF Len(xs) = 1 THEN xs[1]
    ELSE LET m == SeqMin(Tail(xs)) IN IF xs[1] <= m THEN xs[1] ELSE m

-----------------------------------------------------------------------------
(* Calibration points and validation *)

\* the dict appended by add_calibration_point
CalibrationPoint(label, pixel_coords, depth_meters, world_coords, predicted, error) ==
    [label                  |-> label,
     pixel_coords           |-> pixel_coords,
     depth_meters           |-> depth_meters,
     world_coords_true      |-> world_coords,
     world_coords_predicted |-> ListV(predicted),
     error_cm               |-> error]

\* variant: the error is measured in the ground plane only
PointErrorPlanar(predicted, world_coords) ==
    Norm(<<predicted[1] - world_coords[1], predicted[2] - world_coords[2], 0>>)

\* error = np.linalg.norm(point_world_predicted - world_coords_array)
PointError(predicted, world_coords) == Norm(VecSub(predicted, world_coords))

\* variant: the new point is inserted at the front
AppendPointFront(points, pt) == <<pt>> \o points

\* self.calibration_points.append(calibration_point)
AppendPoint(points, pt) == Append(points, pt)

\* variant: the observation is recorded before the transform is applied, so a
\* call that fails for want of a transform leaves an entry behind
add_calibration_point_recording_first(c, pixel_coords, depth_meters, world_coords, label) ==
    LET args == <<pixel_coords, depth_meters, world_coords, label>>
        pc   == pixel_to_camera_coordinates(c, pixel_coords.v[1], pixel_coords.v[2],
                                            depth_meters)
    IN IF pc.raised
       THEN [c |-> c, ret |-> Raised("add_calibration_point", args, pc.exc.t, pc.exc.msg)]
       ELSE LET pw == camera_to_world_coordinates(c, pc.value.v, TRUE)
            IN IF pw.raised
               THEN [c |-> [c EXCEPT !.calibration_points =
                               AppendPoint(@, CalibrationPoint(label, pixel_coords,
                                   depth_meters, world_coords, world_coords.v, 0))],
                     ret |-> Raised("add_calibration_point", args, pw.exc.t, pw.exc.msg)]
               ELSE LET error == PointError(pw.value.v, world_coords.v)
                        pt    == CalibrationPoint(label, pixel_coords, depth_meters,
                                                  world_coords, pw.value.v, error)
                    IN [c |-> [c EXCEPT !.calibration_points = AppendPoint(@, pt)],
                        ret |-> Returned("add_calibration_point", args, Float(error))]

\* add_calibration_point(pixel_coords, depth_meters, world_coords, label):
\* the calibrator afterwards and the call's outcome
add_calibration_point(c, pixel_coords, depth_meters, world_coords, label) ==
    LET args == <<pixel_coords, depth_meters, world_coords, label>>
        pc   == pixel_to_camera_coordinates(c, pixel_coords.v[1], pixel_coords.v[2],
                                            depth_meters)
    IN IF pc.raised
       THEN [c |-> c, ret |-> Raised("add_calibration_point", args, pc.exc.t, pc.exc.msg)]
       ELSE LET pw == camera_to_world_coordinates(c, pc.value.v, TRUE)
            IN IF pw.raised
               THEN [c |-> c,
                     ret |-> Raised("add_calibration_point", args, pw.exc.t, pw.exc.msg)]
               ELSE LET error == PointError(pw.value.v, world_coords.v)
                        pt    == CalibrationPoint(label, pixel_coords, depth_meters,
                                                  world_coords, pw.value.v, error)
                    IN [c |-> [c EXCEPT !.calibration_points = AppendPoint(@, pt)],
                        ret |-> Returned("add_calibration_point", args, Float(error))]

\* errors = [pt['error_cm'] for pt in self.calibration_points]
Errors(points) == [i \in 1..Len(points) |-> points[i].error_cm]

\* the metrics dict of validate_calibration
Metrics(errors) ==
    LET qs   == [i \in 1..Len(errors) |-> RatInt(errors[i])]
        mean == RatMean(qs)
        dev2 == [i \in 1..Len(errors) |->
                    RatMul(RatSub(qs[i], mean), RatSub(qs[i], mean))]
        sq   == [i \in 1..Len(errors) |-> RatInt(errors[i] * errors[i])]
    IN [num_points    |-> Len(errors),
        mean_error_cm |-> mean,
        std_error_cm  |-> SqrtOf(RatMul(RatSum(dev2), Rat(1, StdDivisor(Len(errors))))),
        max_error_cm  |-> SeqMax(errors),
        min_error_cm  |-> SeqMin(errors),
        rmse_cm       |-> SqrtOf(RatMean(sq))]

\* what validate_calibration does when there are no points
ValidateEmpty(c) ==
    [c |-> c, ret |-> Returned("validate_calibration", <<>>, None)]

\* validate_calibration()
validate_calibration(c) ==
    IF Len(c.calibration_points) = 0
    THEN ValidateEmpty(c)
    ELSE LET metrics == Metrics(Errors(c.calibration_points))
         IN [c |-> [c EXCEPT !.calibration_error_cm = Float(metrics.mean_error_cm)],
             ret |-> Returned("validate_calibration", <<>>,
                              [t |-> "dict", v |-> metrics])]

-----------------------------------------------------------------------------
(* Persistence: save_calibration / load_calibration *)

\* json.dump then json.load of a calibration point: tuples come back as lists
PointToJson(pt) ==
    [pt EXCEPT !.pixel_coords = ListV(@.v), !.world_coords_true = ListV(@.v)]

\* the 'camera_intrinsics' entry of calibration_data
IntrinsicsToJson(intr) ==
    IF IsNone(intr) THEN None
    ELSE [t |-> "dict", width |-> intr.width, height |-> intr.height,
          fx |-> intr.fx, fy |-> intr.fy, ppx |-> intr.ppx, ppy |-> intr.ppy]

\* the calibration_data dict as json.load reads it back
CalibrationData(c) ==
    [timestamp             |-> "now",
     camera_height_cm      |-> c.camera_height_cm,
     camera_position_world |-> ListV(c.camera_position_world.v),
     rotation_matrix       |-> ListV(c.rotation_matrix.v),
     translation_vector    |-> ListV(c.translation_vector.v),
     transformation_matrix |-> ListV(c.T_world_camera.v),
     calibration_error_cm  |-> c.calibration_error_cm,
     calibration_points    |-> [i \in 1..Len(c.calibration_points) |->
                                   PointToJson(c.calibration_points[i])],
     camera_intrinsics     |-> IntrinsicsToJson(c.camera_intrinsics),
     depth_scale           |-> c.depth_scale]

\* save_calibration() with open() moved ahead of the dict: a failing call
\* leaves an empty file behind
save_calibration_open_first(c, f) ==
    IF \/ IsNone(c.camera_position_world) \/ IsNone(c.rotation_matrix)
       \/ IsNone(c.translation_vector) \/ IsNone(c.T_world_camera)
    THEN [file |-> [t |-> "file", data |-> [timestamp |-> "now"]],
          ret |-> Raised("save_calibration", <<>>, "AttributeError",
                         "'NoneType' object has no attribute 'tolist'")]
    ELSE [file |-> [t |-> "file", data |-> CalibrationData(c)],
          ret |-> Returned("save_calibration", <<>>, None)]

\* save_calibration(): the file afterwards and the call's outcome.
\* .tolist() of an attribute that is still None raises before the file is opened.
save_calibration(c, f) ==
    IF \/ IsNone(c.camera_position_world) \/ IsNone(c.rotation_matrix)
       \/ IsNone(c.translation_vector) \/ IsNone(c.T_world_camera)
    THEN [file |-> f,
          ret |-> Raised("save_calibration", <<>>, "AttributeError",
                         "'NoneType' object has no attribute 'tolist'")]
    ELSE [file |-> [t |-> "file", data |-> CalibrationData(c)],
          ret |-> Returned("save_calibration", <<>>, None)]

\* the keys load_calibration reads, in the order it assigns them
LoadKeys ==
    <<"camera_height_cm", "camera_position_world", "rotation_matrix",
      "translation_vector", "transformation_matrix", "calibration_error_cm",
      "calibration_points", "depth_scale">>

\* np.array(x)
ToArray(x) == NdArray(x.v)

\* one assignment of load_calibration
LoadAssign(c, data, key) ==
    CASE key = "camera_height_cm" ->
            [c EXCEPT !.camera_height_cm = data.camera_height_cm]
      [] key = "camera_position_world" ->
            [c EXCEPT !.camera_position_world = ToArray(data.camera_position_world)]
      [] key = "rotation_matrix" ->
            [c EXCEPT !.rotation_matrix = ToArray(data.rotation_matrix)]
      [] key = "translation_vector" ->
            [c EXCEPT !.translation_vector = ToArray(data.translation_vector)]
      [] key = "transformation_matrix" ->
            [c EXCEPT !.T_world_camera = ToArray(data.transformation_matrix)]
      [] key = "calibration_error_cm" ->
            [c EXCEPT !.calibration_error_cm = data.calibration_error_cm]
      [] key = "calibration_points" ->
            [c EXCEPT !.calibration_points = data.calibration_points]
      [] key = "depth_scale" ->
            [c EXCEPT !.depth_scale = data.depth_scale]

\* the assignments in order; a missing key raises KeyError and keeps what
\* was assigned before it
RECURSIVE LoadLoop(_, _, _)
LoadLoop(c, data, i) ==
    IF i > Len(LoadKeys) THEN [c |-> c, missing |-> None]
    ELSE IF LoadKeys[i] \notin DOMAIN data
         THEN [c |-> c, missing |-> [t |-> "key", v |-> LoadKeys[i]]]
         ELSE LoadLoop(LoadAssign(c, data, LoadKeys[i]), data, i + 1)

\* load_calibration(): the calibrator afterwards and the call's outcome.
\* The closing print formats calibration_error_cm with :.2f, which raises
\* TypeError when it is None and ValueError when it is a string.
load_calibration(c, f) ==
    IF IsNone(f)
    THEN [c |-> c, ret |-> Raised("load_calibration", <<>>, "FileNotFoundError",
                                  "No such file or directory")]
    ELSE LET r == LoadLoop(c, f.data, 1)
         IN IF ~IsNone(r.missing)
            THEN [c |-> r.c,
                  ret |-> Raised("load_calibration", <<>>, "KeyError", r.missing.v)]
            ELSE IF IsNone(r.c.calibration_error_cm)
            THEN [c |-> r.c,
                  ret |-> Raised("load_calibration", <<>>, "TypeError",
                                 "unsupported format string passed to NoneType.__format__")]
            ELSE IF r.c.calibration_error_cm.t = "str"
            THEN [c |-> r.c,
                  ret |-> Raised("load_calibration", <<>>, "ValueError",
                                 "Unknown format code 'f' for object of type 'str'")]
            ELSE [c |-> r.c, ret |-> Returned("load_calibration", <<>>, None)]

-----------------------------------------------------------------------------
(* interactive_calibration_session *)

\* a Python int held in a variable that may be unbound
IntV(v) == [t |-> "int", v |-> v]

\* what the operator does at one calibration point: press 'q', or click a
\* pixel (the depth is what depth_frame.get_distance returns there) and, when
\* asked, type the true coordinates
KeyQ == [key |-> "q"]
NoDepthClick(px) == [key |-> "click", pixel |-> px, depth |-> 0]
Click(px, depth, truth) ==
    [key |-> "click", pixel |-> px, depth |-> depth, truth |-> truth, label |-> "p"]

\* the session before it starts.  it: how many values the range iterator has
\* handed out; i: the loop variable; q_skips and last are history (the
\* points skipped with 'q', the operator's last input)
NewSession ==
    [pc |-> "start", num_points |-> 0, it |-> 0, i |-> None,
     q_skips |-> 0, last |-> [key |-> "none"]]

\* up to the for loop: a new calibrator, setup_camera, the pose typed in,
\* define_simple_overhead_calibration, num_points typed in
session_start(intrinsics, scale, p, num_points) ==
    [c |-> define_simple_overhead_calibration(
               setup_camera(NewCalibrator, intrinsics, scale),
               p.h, p.x, p.y, p.tilt, p.pan, p.roll),
     s |-> [NewSession EXCEPT !.pc = "loop", !.num_points = num_points]]

\* variant: the loop body without the depth check
point_iteration_projecting_zero(c, s, in) ==
    LET s1 == [s EXCEPT !.it = @ + 1, !.i = IntV(s.it), !.last = in]
    IN IF in.key = "q"
       THEN [c |-> c, s |-> [s1 EXCEPT !.q_skips = @ + 1],
             ret |-> Returned("interactive_calibration_session", <<"q">>, None)]
       ELSE LET truth == IF "truth" \in DOMAIN in THEN in.truth ELSE <<0, 0, 0>>
                r == add_calibration_point(c, TupleV(in.pixel), in.depth,
                                           TupleV(truth), "p")
            IN [c |-> r.c, s |-> s1, ret |-> r.ret]

\* one pass of 'for i in range(num_points)': i takes the iterator's next
\* value; 'q' leaves the while loop without a selected point (continue); a
\* click without depth prints, does i -= 1 and continues; any other click
\* is added with the coordinates typed in.  An exception ends the session.
point_iteration(c, s, in) ==
    LET s1 == [s EXCEPT !.it = @ + 1, !.i = IntV(s.it), !.last = in]
    IN IF in.key = "q"
       THEN [c |-> c, s |-> [s1 EXCEPT !.q_skips = @ + 1],
             ret |-> Returned("interactive_calibration_session", <<"q">>, None)]
       ELSE IF in.depth = 0
       THEN [c |-> c, s |-> [s1 EXCEPT !.i = IntV(@.v - 1)],
             ret |-> Returned("interactive_calibration_session",
                              <<"No depth data at selected point! Try again.">>, None)]
       ELSE LET r == add_calibration_point(c, TupleV(in.pixel), in.depth,
                                           TupleV(in.truth), in.label)
            IN [c |-> r.c,
                s |-> IF r.ret.raised THEN [s1 EXCEPT !.pc = "raised"] ELSE s1,
                ret |-> r.ret]

\* after the loop: validate_calibration, then the point cloud and its
\* picture, which touch neither the calibrator nor calibration.json
session_validate(c, s) ==
    LET r == validate_calibration(c)
    IN [c |-> r.c, ret |-> r.ret,
        s |-> [s EXCEPT !.pc = IF r.ret.raised THEN "raised" ELSE "save_choice"]]

\* "Save this calibration? (y/n)": 'y' calls save_calibration
session_save(c, s, f, save_choice) ==
    IF save_choice = "y"
    THEN LET r == save_calibration(c, f)
         IN [file |-> r.file, ret |-> r.ret,
             s |-> [s EXCEPT !.pc = IF r.ret.raised THEN "raised" ELSE "done"]]
    ELSE [file |-> f, s |-> [s EXCEPT !.pc = "done"],
          ret |-> Returned("interactive_calibration_session",
                           <<"Calibration not saved.">>, None)]

-----------------------------------------------------------------------------
(* CalibrationClickTool *)

\* _process_click rejects a depth above this many metres
MAX_CLICK_DEPTH_M == 10

\* __init__: the transformer with the stream's intrinsics, the sensor's depth
\* scale, no clicked points, no frame yet.  printed is history: the last
\* message a method printed
NewClickTool(camera_height_m, pitch_deg, roll_deg, yaw_deg, intrinsics, scale) ==
    [transformer    |-> set_intrinsics(
                            NewTransformer(camera_height_m, pitch_deg, roll_deg, yaw_deg),
                            intrinsics),
     depth_scale    |-> scale,
     clicked_points |-> <<>>,
     current_depth  |-> None,
     printed        |-> None]

\* CoordinateTransformer.pixel_to_world_coords(pixel_x, pixel_y, depth_m)
pixel_to_world_coords(t, pixel_x, pixel_y, depth_m) ==
    LET args == <<pixel_x, pixel_y, depth_m>>
        cam  == pixel_to_camera_coords(t, pixel_x, pixel_y, depth_m)
    IN IF cam.raised
       THEN Raised("pixel_to_world_coords", args, cam.exc.t, cam.exc.msg)
       ELSE LET world == camera_to_world_coords(t, cam.value.v).value
            IN Returned("pixel_to_world_coords", args,
                        [t |-> "dict",
                         camera_coords   |-> cam.value,
                         world_coords    |-> world,
                         world_coords_2d |-> NdArray(<<world.v[1], world.v[2]>>),
                         pixel           |-> TupleV(<<pixel_x, pixel_y>>),
                         depth_m         |-> depth_m])

\* run(): one pass of the display loop with both frames present stores the
\* depth frame
store_frame(tl, depth_image) == [tl EXCEPT !.current_depth = NdArray(depth_image)]

\* self.current_depth[pixel_y, pixel_x] * self.depth_scale
ClickDepth(tl, pixel_x, pixel_y) ==
    tl.current_depth.v[pixel_y + 1][pixel_x + 1] * tl.depth_scale

\* the dict _process_click stores for a click
PointData(pixel_x, pixel_y, depth_m, result) ==
    [pixel_x         |-> pixel_x,
     pixel_y         |-> pixel_y,
     depth_m         |-> depth_m,
     camera_coords_m |-> ListV(result.camera_coords.v),
     world_coords_m  |-> ListV(result.world_coords.v),
     world_xy_cm     |-> ListV(<<result.world_coords_2d.v[1] * CM_PER_M,
                                 result.world_coords_2d.v[2] * CM_PER_M>>),
     timestamp       |-> "now"]

\* _process_click(pixel_x, pixel_y)
process_click(tl, pixel_x, pixel_y) ==
    LET args == <<pixel_x, pixel_y>>
    IN IF IsNone(tl.current_depth)
       THEN [tool |-> [tl EXCEPT !.printed = Str("No depth frame available!")],
             ret |-> Returned("_process_click", args, None)]
       ELSE LET depth_m == ClickDepth(tl, pixel_x, pixel_y)
            IN IF depth_m = 0 \/ depth_m > MAX_CLICK_DEPTH_M * Scale
               THEN [tool |-> [tl EXCEPT !.printed = Str("Invalid depth at pixel")],
                     ret |-> Returned("_process_click", args, None)]
               ELSE LET result == pixel_to_world_coords(tl.transformer,
                                                        pixel_x, pixel_y, depth_m)
                    IN IF result.raised
                       THEN [tool |-> tl,
                             ret |-> Raised("_process_click", args,
                                            result.exc.t, result.exc.msg)]
                       ELSE [tool |-> [tl EXCEPT
                                          !.printed = Str("coordinates"),
                                          !.clicked_points =
                                              Append(@, PointData(pixel_x, pixel_y,
                                                                  depth_m, result.value))],
                             ret |-> Returned("_process_click", args, None)]

\* d[key] = value on a dict
SetItem(d, key, value) ==
    [k \in (DOMAIN d) \cup {key} |-> IF k = key THEN value ELSE d[k]]

\* the ground truth and the errors add_ground_truth writes into a point
WithGroundTruth(pt, physical_x_cm, physical_y_cm) ==
    LET error_x == pt.world_xy_cm.v[1] - physical_x_cm
        error_y == pt.world_xy_cm.v[2] - physical_y_cm
        error_total == ISqrt(error_x * error_x + error_y * error_y)
    IN SetItem(SetItem(SetItem(SetItem(SetItem(pt,
           "physical_x_cm", physical_x_cm),
           "physical_y_cm", physical_y_cm),
           "error_x_cm", error_x),
           "error_y_cm", error_y),
           "error_total_cm", error_total)

\* add_ground_truth(point_index, physical_x_cm, physical_y_cm): the guard is
\* point_index >= len; self.clicked_points[point_index] then follows Python's
\* list indexing, where -1 .. -len count from the end and anything below
\* raises IndexError
add_ground_truth(tl, point_index, physical_x_cm, physical_y_cm) ==
    LET args == <<point_index, physical_x_cm, physical_y_cm>>
        n    == Len(tl.clicked_points)
    IN IF point_index >= n
       THEN [tool |-> [tl EXCEPT !.printed = Str("out of range")],
             ret |-> Returned("add_ground_truth", args, None)]
       ELSE IF point_index < -n
       THEN [tool |-> tl,
             ret |-> Raised("add_ground_truth", args, "IndexError",
                            "list index out of range")]
       ELSE LET k == IF point_index < 0 THEN n + point_index + 1
                                        ELSE point_index + 1
            IN [tool |-> [tl EXCEPT
                             !.printed = Str("ground truth added"),
                             !.clicked_points[k] =
                                 WithGroundTruth(@, physical_x_cm, physical_y_cm)],
                ret |-> Returned("add_ground_truth", args, None)]

-----------------------------------------------------------------------------
(* Inputs explored.  Lengths are fixed-point: 2 * Scale is 2 cm as a       *)
(* centimetre value, and 2 is 0.02 m as a metre value.                     *)

\* two pinhole cameras (rs.intrinsics): principal point inside / at the corner
Intr1 ==
    [t |-> "intrinsics", width |-> 3, height |-> 2,
     fx |-> 1, fy |-> 1, ppx |-> 1, ppy |-> 1]
Intr2 ==
    [t |-> "intrinsics", width |-> 3, height |-> 2,
     fx |-> 2, fy |-> 2, ppx |-> 0, ppy |-> 0]
IntrinsicsChoices == {Intr1, Intr2}

\* depth scale of the sensor: 0.01 m per raw unit
DepthScales == {1}

Pose(h, x, y, tilt, pan, roll) ==
    [h |-> h, x |-> x, y |-> y, tilt |-> tilt, pan |-> pan, roll |-> roll]

\* straight-down poses at heights 2 cm and 3 cm
PoseA == Pose(2 * Scale, 0, 0, 0, 0, 0)
PoseB == Pose(3 * Scale, 0, 0, 0, 0, 0)
\* tilted, displaced poses
PoseC == Pose(3 * Scale, 1 * Scale, 2 * Scale, 90, 0, 0)
PoseD == Pose(2 * Scale, 0, 0, 0, 90, 90)
\* the identity pose
PoseE == Pose(0, 0, 0, 0, 0, 0)
\* all three angles a quarter turn
PoseF == Pose(2 * Scale, 0, 0, 90, 90, 90)
\* looking sideways from (2 cm, -2 cm, 0)
PoseT == Pose(0, 2 * Scale, -2 * Scale, 90, 0, 0)

SessionPoses == {PoseA, PoseT}
TransformPoses == {PoseA, PoseB, PoseC, PoseD, PoseE, PoseF}

\* camera-frame points (metres) handed to the transform
CameraPoints == {<<0, 0, 2>>, <<0, 0, 3>>, <<1, 2, 3>>, <<-2, 0, 2>>}

\* pixels and depths (metres) handed to the deprojection
Pixels == {<<0, 0>>, <<1, 1>>, <<2, 1>>}
Depths == {2, 3}

\* a depth image of 10 rows of 10 pixels with constant depth 2
ConstantImage == [v \in 1..10 |-> [u \in 1..10 |-> 2]]

\* depth images (raw units), 2 rows of 3 pixels
DepthImages ==
    { << <<0, 0, 0>>, <<0, 0, 0>> >>,
      << <<2, 2, 2>>, <<2, 2, 2>> >>,
      << <<0, 2, 3>>, <<1, 2, 0>> >> }
\* <<subsample, max_distance_cm>>
BatchOptions == {<<1, 2 * Scale>>, <<1, 3 * Scale>>, <<2, 2 * Scale>>}
\* <<depth image, subsample, max_distance_cm>>: every small image with every
\* option, and the 10 x 10 image sampled at every second and every third pixel
BatchInputs ==
    {<<img, o[1], o[2]>> : img \in DepthImages, o \in BatchOptions}
        \cup {<<ConstantImage, 2, 2 * Scale>>, <<ConstantImage, 3, 3 * Scale>>}

\* observations handed to add_calibration_point: pixel, depth (m), true world (cm)
Observation(u, v, d, x, y, z) ==
    [pixel_coords |-> TupleV(<<u, v>>), depth_meters |-> d,
     world_coords |-> TupleV(<<x, y, z>>), label |-> "p"]
Observations ==
    { Observation(1, 1, 2, 0, 0, 1 * Scale),
      Observation(1, 1, 2, 2 * Scale, 0, 0),
      Observation(1, 1, 2, 0, 0, 3 * Scale) }
StoreObservations == { Observation(1, 1, 2, 0, 0, 1 * Scale) }

\* a record without one of its keys
WithoutKey(data, key) == [k \in (DOMAIN data) \ {key} |-> data[k]]

\* the record a session writes: camera set up, PoseA defined, one point, validated
SessionRecord ==
    LET c0 == define_simple_overhead_calibration(
                  setup_camera(NewCalibrator, Intr1, 1),
                  PoseA.h, PoseA.x, PoseA.y, PoseA.tilt, PoseA.pan, PoseA.roll)
        o  == Observation(1, 1, 2, 0, 0, 1 * Scale)
        c1 == add_calibration_point(c0, o.pixel_coords, o.depth_meters,
                                    o.world_coords, o.label).c
    IN CalibrationData(validate_calibration(c1).c)

\* the same record with the first axis of the rotation stretched by 2
StretchedRecord ==
    [SessionRecord EXCEPT
        !.rotation_matrix = ListV([@.v EXCEPT ![1] = <<2 * Scale, 0, 0>>]),
        !.transformation_matrix =
            ListV([@.v EXCEPT ![1] = <<2 * Scale, 0, 0, @[4]>>])]

\* calibration.json files that did not come from save_calibration: a sound
\* record, records with a key missing, records with a field of the wrong
\* type, and a record whose matrix is not a rotation
ForeignRecords ==
    { SessionRecord,
      WithoutKey(SessionRecord, "depth_scale"),
      WithoutKey(SessionRecord, "rotation_matrix"),
      [SessionRecord EXCEPT !.camera_height_cm = Str("tall")],
      [SessionRecord EXCEPT !.calibration_error_cm = Str("low")],
      StretchedRecord }

\* what the operator may do at a calibration point of the session
SessionInputs ==
    {KeyQ, NoDepthClick(<<0, 0>>)}
    \cup {Click(o.pixel_coords.v, o.depth_meters, o.world_coords.v) : o \in Observations}

\* depth frames of the click tool (raw units, rows of 3 pixels): one with
\* readings of 0.02 m and 0.03 m and pixels without reading, one with
\* readings of exactly 10 m and just above
ToolFrames ==
    { << <<2, 0, 0>>, <<0, 0, 3>> >>,
      << <<0, 0, 0>>, <<0, 1000, 1001>> >> }

\* arguments of add_ground_truth: <<point_index, physical_x_cm, physical_y_cm>>
GroundTruths ==
    {<<k, xy[1], xy[2]>> : k \in (-(MaxClicks + 1))..MaxClicks,
                           xy \in {<<-2 * Scale, 2 * Scale>>, <<1 * Scale, -2 * Scale>>}}

\* CoordinateTransformer: heights (m) and angles
TransformerHeights == {2}
\* arguments of update_tilt: <<pitch_deg, roll_deg, yaw_deg>>, None keeps the angle
TiltUpdates ==
    { <<Float(90), None, None>>,
      <<None, Float(90), Float(0)>>,
      <<Float(0), Float(0), Float(90)>>,
      <<None, Float(90), None>> }

-----------------------------------------------------------------------------
(* State machine *)

Init ==
    /\ cal = NewCalibrator
    /\ fresh = NewCalibrator
    /\ file = None
    /\ ct \in {NewTransformer(h, 0, 0, 0) : h \in TransformerHeights}
    /\ ret = Returned("__init__", <<>>, None)
    /\ pose = None
    /\ saved = None
    /\ point = None
    /\ session = NewSession
    /\ tool \in {NewClickTool(h, 0, 0, 0, Intr1, sc) :
                    h \in TransformerHeights, sc \in DepthScales}

\* the calibrator of LoadIntoFresh is a new instance each time: it does not
\* outlive the next call
DropFresh == fresh' = NewCalibrator

\* the call was handed no array
NoPoint == point' = None

SetupCamera(intrinsics, scale) ==
    /\ cal' = setup_camera(cal, intrinsics, scale)
    /\ ret' = Returned("setup_camera", <<>>, None)
    /\ UNCHANGED <<session, tool, file, ct, pose, saved>> /\ DropFresh /\ NoPoint

DefineCalibration(p) ==
    /\ cal' = define_simple_overhead_calibration(cal, p.h, p.x, p.y,
                                                 p.tilt, p.pan, p.roll)
    /\ ret' = Returned("define_simple_overhead_calibration", <<>>, None)
    /\ pose' = [t |-> "pose", v |-> p]
    /\ UNCHANGED <<session, tool, file, ct, saved>> /\ DropFresh /\ NoPoint

PixelToCamera(px, d) ==
    /\ ret' = pixel_to_camera_coordinates(cal, px[1], px[2], d)
    /\ UNCHANGED <<session, tool, cal, file, ct, pose, saved>> /\ DropFresh /\ NoPoint

CameraToWorld(p, return_cm) ==
    /\ ret' = camera_to_world_coordinates(cal, p, return_cm)
    /\ point' = NdArray(PointAfterCall(p))
    /\ UNCHANGED <<session, tool, cal, file, ct, pose, saved>> /\ DropFresh

DepthImageToWorld(img, subsample, max_distance_cm) ==
    /\ ret' = depth_image_to_world_points(cal, img, subsample, max_distance_cm)
    /\ UNCHANGED <<session, tool, cal, file, ct, pose, saved>> /\ DropFresh /\ NoPoint

AddCalibrationPoint(o, limit) ==
    /\ Len(cal.calibration_points) < limit
    /\ LET r == add_calibration_point(cal, o.pixel_coords, o.depth_meters,
                                      o.world_coords, o.label)
       IN cal' = r.c /\ ret' = r.ret
    /\ UNCHANGED <<session, tool, file, ct, pose, saved>> /\ DropFresh /\ NoPoint

ValidateCalibration ==
    /\ LET r == validate_calibration(cal) IN cal' = r.c /\ ret' = r.ret
    /\ UNCHANGED <<session, tool, file, ct, pose, saved>> /\ DropFresh /\ NoPoint

SaveCalibration ==
    /\ LET r == save_calibration(cal, file)
       IN /\ file' = r.file
          /\ ret' = r.ret
          /\ saved' = IF r.ret.raised THEN saved ELSE [t |-> "calibrator", v |-> cal]
    /\ UNCHANGED <<session, tool, cal, ct, pose>> /\ DropFresh /\ NoPoint

\* load_calibration on the session's calibrator
LoadCalibration ==
    /\ LET r == load_calibration(cal, file)
       IN /\ cal' = r.c
          /\ ret' = r.ret
          /\ pose' = IF r.c.T_world_camera = cal.T_world_camera THEN pose ELSE None
    /\ UNCHANGED <<session, tool, file, ct, saved>> /\ DropFresh /\ NoPoint

\* output_dir/calibration.json is put in place from outside the session
PlaceFile(data) ==
    /\ file' = [t |-> "file", data |-> data]
    /\ ret' = Returned("open", <<>>, None)
    /\ UNCHANGED <<session, tool, cal, ct, pose, saved>> /\ DropFresh /\ NoPoint

\* load_calibration on a newly constructed calibrator
LoadIntoFresh ==
    /\ LET r == load_calibration(NewCalibrator, file)
       IN fresh' = r.c /\ ret' = [r.ret EXCEPT !.args = <<"fresh">>]
    /\ UNCHANGED <<session, tool, cal, file, ct, pose, saved>> /\ NoPoint

TransformerSetIntrinsics(intrinsics) ==
    /\ ct' = set_intrinsics(ct, intrinsics)
    /\ ret' = Returned("set_intrinsics", <<>>, None)
    /\ UNCHANGED <<session, tool, cal, file, pose, saved>> /\ DropFresh /\ NoPoint

TransformerUpdateTilt(pitch, roll, yaw) ==
    /\ ct' = update_tilt(ct, pitch, roll, yaw)
    /\ ret' = Returned("update_tilt", <<>>, None)
    /\ UNCHANGED <<session, tool, cal, file, pose, saved>> /\ DropFresh /\ NoPoint

TransformerPixelToCamera(px, d) ==
    /\ ret' = pixel_to_camera_coords(ct, px[1], px[2], d)
    /\ UNCHANGED <<session, tool, cal, file, ct, pose, saved>> /\ DropFresh /\ NoPoint

TransformerCameraToWorld(p) ==
    /\ ret' = camera_to_world_coords(ct, p)
    /\ point' = NdArray(PointAfterCall(p))
    /\ UNCHANGED <<session, tool, cal, file, ct, pose, saved>> /\ DropFresh

\* interactive_calibration_session up to its for loop
SessionStart(p, num_points) ==
    /\ session.pc = "start"
    /\ LET r == session_start(Intr1, 1, p, num_points)
       IN cal' = r.c /\ session' = r.s
    /\ ret' = Returned("define_simple_overhead_calibration", <<>>, None)
    /\ pose' = [t |-> "pose", v |-> p]
    /\ UNCHANGED <<tool, file, ct, saved>> /\ DropFresh /\ NoPoint

\* one pass of the for loop
SessionPoint(in) ==
    /\ session.pc = "loop" /\ session.it < session.num_points
    /\ LET r == point_iteration(cal, session, in)
       IN cal' = r.c /\ session' = r.s /\ ret' = r.ret
    /\ UNCHANGED <<tool, file, ct, pose, saved>> /\ DropFresh /\ NoPoint

\* the range is exhausted: validation and visualisation
SessionValidate ==
    /\ session.pc = "loop" /\ session.it = session.num_points
    /\ LET r == session_validate(cal, session)
       IN cal' = r.c /\ session' = r.s /\ ret' = r.ret
    /\ UNCHANGED <<tool, file, ct, pose, saved>> /\ DropFresh /\ NoPoint

\* the answer to "Save this calibration?" and the end of the session
SessionSave(save_choice) ==
    /\ session.pc = "save_choice"
    /\ LET r == session_save(cal, session, file, save_choice)
       IN /\ file' = r.file /\ session' = r.s /\ ret' = r.ret
          /\ saved' = IF save_choice = "y" /\ ~r.ret.raised
                      THEN [t |-> "calibrator", v |-> cal] ELSE saved
    /\ UNCHANGED <<tool, cal, ct, pose>> /\ DropFresh /\ NoPoint

\* the click tool's display loop shows a new frame
ToolFrame(depth_image) ==
    /\ tool' = store_frame(tool, depth_image)
    /\ ret' = Returned("run", <<>>, None)
    /\ UNCHANGED <<session, cal, file, ct, pose, saved>> /\ DropFresh /\ NoPoint

\* a left click in the click tool's window
ToolClick(px) ==
    /\ Len(tool.clicked_points) < MaxClicks
    /\ LET r == process_click(tool, px[1], px[2])
       IN tool' = r.tool /\ ret' = r.ret
    /\ UNCHANGED <<session, cal, file, ct, pose, saved>> /\ DropFresh /\ NoPoint

ToolAddGroundTruth(g) ==
    /\ LET r == add_ground_truth(tool, g[1], g[2], g[3])
       IN tool' = r.tool /\ ret' = r.ret
    /\ UNCHANGED <<session, cal, file, ct, pose, saved>> /\ DropFresh /\ NoPoint

\* a calibration session: set-up, pose, observations, validation
Next ==
    \/ \E s \in DepthScales : SetupCamera(Intr1, s)
    \/ \E p \in SessionPoses : DefineCalibration(p)
    \/ \E o \in Observations : AddCalibrationPoint(o, MaxPoints)
    \/ ValidateCalibration

Spec == Init /\ [][Next]_vars

\* the conversions: deprojection, camera-to-world, batch, both implementations
NextTransform ==
    \/ \E i \in IntrinsicsChoices, s \in DepthScales : SetupCamera(i, s)
    \/ \E p \in TransformPoses : DefineCalibration(p)
    \/ \E px \in Pixels, d \in Depths : PixelToCamera(px, d)
    \/ \E p \in CameraPoints, cm \in BOOLEAN : CameraToWorld(p, cm)
    \/ \E b \in BatchInputs : DepthImageToWorld(b[1], b[2], b[3])
    \/ TransformerSetIntrinsics(Intr1)
    \/ \E a \in TiltUpdates : TransformerUpdateTilt(a[1], a[2], a[3])
    \/ \E px \in Pixels, d \in Depths : TransformerPixelToCamera(px, d)
    \/ \E p \in CameraPoints : TransformerCameraToWorld(p)

SpecTransform == Init /\ [][NextTransform]_vars

\* a session with persistence: save, load into the session's calibrator,
\* load into a new calibrator
NextStore ==
    \/ \E s \in DepthScales : SetupCamera(Intr1, s)
    \/ \E p \in SessionPoses : DefineCalibration(p)
    \/ \E o \in StoreObservations : AddCalibrationPoint(o, MaxStorePoints)
    \/ ValidateCalibration
    \/ SaveCalibration
    \/ LoadCalibration
    \/ LoadIntoFresh

SpecStore == Init /\ [][NextStore]_vars

\* a session beside a calibration.json it did not write
NextLoad ==
    \/ \E s \in DepthScales : SetupCamera(Intr1, s)
    \/ \E p \in SessionPoses : DefineCalibration(p)
    \/ \E o \in StoreObservations : AddCalibrationPoint(o, 1)
    \/ ValidateCalibration
    \/ \E d \in ForeignRecords : PlaceFile(d)
    \/ LoadCalibration
    \/ SaveCalibration

SpecLoad == Init /\ [][NextLoad]_vars

\* the two interactive programs: the calibration session and the click tool
NextInteractive ==
    \/ \E p \in SessionPoses, n \in 1..MaxSessionPoints : SessionStart(p, n)
    \/ \E in \in SessionInputs : SessionPoint(in)
    \/ SessionValidate
    \/ \E a \in {"y", "n"} : SessionSave(a)
    \/ \E img \in ToolFrames : ToolFrame(img)
    \/ \E px \in Pixels : ToolClick(px)

SpecInteractive == Init /\ [][NextInteractive]_vars

\* the click tool with ground truth added to its points
NextClick ==
    \/ \E img \in ToolFrames : ToolFrame(img)
    \/ \E px \in Pixels : ToolClick(px)
    \/ \E g \in GroundTruths : ToolAddGroundTruth(g)

SpecClick == Init /\ [][NextClick]_vars

-----------------------------------------------------------------------------
(* Properties *)

RECURSIVE SumSeq(_)
SumSeq(xs) == IF xs = <<>> THEN 0 ELSE Head(xs) + SumSeq(Tail(xs))

Squares(xs) == [i \in 1..Len(xs) |-> xs[i] * xs[i]]

\* the last define call gave a straight-down pose above the world origin
StraightDown ==
    /\ ~IsNone(pose)
    /\ pose.v.x = 0 /\ pose.v.y = 0
    /\ pose.v.tilt = 0 /\ pose.v.pan = 0 /\ pose.v.roll = 0

\* C1: height translation.  With a straight-down pose at height H above the
\* origin, camera_to_world_coordinates maps the camera point (0, 0, d) to
\* (0, 0, H - d) in the requested unit: in centimetres H - 100 d, in metres
\* the same divided by 100.  A point at depth d = H lands on z = 0.
C1_HeightTranslation ==
    (/\ ret.op = "camera_to_world_coordinates"
     /\ StraightDown
     /\ ret.args[1][1] = 0 /\ ret.args[1][2] = 0)
    => LET d == ret.args[1][3]
           H == pose.v.h
       IN /\ ~ret.raised
          /\ ret.value.v[1] = 0
          /\ ret.value.v[2] = 0
          /\ IF ret.args[2]
             THEN ret.value.v[3] = H - d * CM_PER_M
             ELSE ret.value.v[3] * CM_PER_M = H - d * CM_PER_M

\* a point at depth d = H = 2 cm was mapped to the ground plane, in centimetres
C1_Witness ==
    /\ ret.op = "camera_to_world_coordinates"
    /\ StraightDown
    /\ pose.v.h = 2 * Scale
    /\ ret.args = << <<0, 0, 2>>, TRUE >>
    /\ ~ret.raised
    /\ ret.value.v = <<0, 0, 0>>

\* C2: validate_calibration on a non-empty history returns num_points = the
\* history length, the mean, the population variance (as the square of std),
\* min, max and the mean square (as the square of rmse) of all error_cm values;
\* for errors 1, 2, 3 cm: mean 2, variance 2/3, min 1, max 3, rmse^2 14/3.
C2_ValidateStatistics ==
    (ret.op = "validate_calibration" /\ Len(cal.calibration_points) > 0)
    => LET e    == [i \in 1..Len(cal.calibration_points) |->
                       cal.calibration_points[i].error_cm]
           n    == Len(e)
           S1   == SumSeq(e)
           S2   == SumSeq(Squares(e))
           m    == ret.value.v
           var  == m.std_error_cm.sqrt_of
           msq  == m.rmse_cm.sqrt_of
       IN /\ ~ret.raised
          /\ ret.value.t = "dict"
          /\ m.num_points = n
          /\ m.mean_error_cm.den > 0
          /\ m.mean_error_cm.num * n = S1 * m.mean_error_cm.den
          /\ var.den > 0
          /\ var.num * n * n = var.den * (n * S2 - S1 * S1)
          /\ \A i \in 1..n : m.min_error_cm <= e[i] /\ e[i] <= m.max_error_cm
          /\ \E i \in 1..n : m.min_error_cm = e[i]
          /\ \E i \in 1..n : m.max_error_cm = e[i]
          /\ msq.den > 0
          /\ msq.num * n = S2 * msq.den
          /\ (e = <<1 * Scale, 2 * Scale, 3 * Scale>>)
             => /\ m.mean_error_cm = [num |-> 2 * Scale, den |-> 1]
                /\ var.num * 3 = 2 * Scale * Scale * var.den
                /\ m.min_error_cm = 1 * Scale
                /\ m.max_error_cm = 3 * Scale
                /\ msq.num * 3 = 14 * Scale * Scale * msq.den

\* validate_calibration has just run on three points with errors 1, 2, 3 cm
C2_Witness ==
    /\ ret.op = "validate_calibration"
    /\ ~ret.raised
    /\ Len(cal.calibration_points) = 3
    /\ cal.calibration_points[1].error_cm = 1 * Scale
    /\ cal.calibration_points[2].error_cm = 2 * Scale
    /\ cal.calibration_points[3].error_cm = 3 * Scale
    /\ ret.value.v.num_points = 3

\* C3: validate_calibration on an empty history raises; it never returns a
\* value to the caller.
C3_ValidateEmptyRaises ==
    (ret.op = "validate_calibration" /\ Len(cal.calibration_points) = 0)
    => ret.raised

\* two calibration points agree in every entry (container types aside)
SamePoint(a, b) ==
    /\ a.label = b.label
    /\ a.pixel_coords.v = b.pixel_coords.v
    /\ a.depth_meters = b.depth_meters
    /\ a.world_coords_true.v = b.world_coords_true.v
    /\ a.world_coords_predicted.v = b.world_coords_predicted.v
    /\ a.error_cm = b.error_cm

\* calibrator c holds every field of the record made from calibrator s
SameRecord(c, s) ==
    /\ c.camera_height_cm = s.camera_height_cm
    /\ c.camera_position_world = s.camera_position_world
    /\ c.rotation_matrix = s.rotation_matrix
    /\ c.translation_vector = s.translation_vector
    /\ c.T_world_camera = s.T_world_camera
    /\ c.camera_intrinsics = s.camera_intrinsics
    /\ c.depth_scale = s.depth_scale
    /\ Len(c.calibration_points) = Len(s.calibration_points)
    /\ \A i \in 1..Len(s.calibration_points) :
          SamePoint(c.calibration_points[i], s.calibration_points[i])

\* C4: persistence round-trips.  After save_calibration, load_calibration into
\* a new calibrator restores every field of the record: pose, rotation,
\* translation, transform, intrinsics snapshot, depth_scale and the full
\* history in its original order.
C4_RoundTrip ==
    (ret.op = "load_calibration" /\ ret.args = <<"fresh">> /\ ~IsNone(saved))
    => SameRecord(fresh, saved.v)

\* C5: the history is append-only and ordered.  A successful
\* add_calibration_point lengthens it by exactly one entry placed at the end;
\* a failed one and validate_calibration leave it as it was; no entry already
\* present is removed, moved or altered.
C5_HistoryAppendOnly ==
    [][LET h  == cal.calibration_points
           h2 == cal'.calibration_points
       IN /\ (ret'.op = "add_calibration_point" /\ ~ret'.raised)
             => /\ Len(h2) = Len(h) + 1
                /\ SubSeq(h2, 1, Len(h)) = h
                /\ h2[Len(h2)].pixel_coords = ret'.args[1]
                /\ h2[Len(h2)].world_coords_true = ret'.args[3]
          /\ (ret'.op = "add_calibration_point" /\ ret'.raised) => h2 = h
          /\ (ret'.op = "validate_calibration") => h2 = h
      ]_vars

\* a point was appended to a history that already held two different points
C5_Witness ==
    /\ ret.op = "add_calibration_point"
    /\ ~ret.raised
    /\ Len(cal.calibration_points) = 3
    /\ cal.calibration_points[1] # cal.calibration_points[2]
    /\ cal.calibration_points[3].world_coords_true = ret.args[3]

\* e is the distance between a and b, rounded to the nearest fixed-point number
IsDistance(e, a, b) ==
    LET d2 == (a[1] - b[1]) * (a[1] - b[1]) + (a[2] - b[2]) * (a[2] - b[2])
              + (a[3] - b[3]) * (a[3] - b[3])
    IN /\ e >= 0
       /\ e = 0 \/ (2 * e - 1) * (2 * e - 1) <= 4 * d2
       /\ 4 * d2 < (2 * e + 1) * (2 * e + 1)

\* C6: every stored point has world_coords_predicted equal to the world point,
\* in centimetres, got by deprojecting its pixel and depth and applying the
\* transform held when it was added, and error_cm equal to the Euclidean
\* distance between predicted and true; so error_cm >= 0, and error_cm = 0
\* exactly when predicted equals true.
C6_PointPrediction ==
    /\ [](\A i \in 1..Len(cal.calibration_points) :
            LET pt == cal.calibration_points[i]
            IN /\ IsDistance(pt.error_cm, pt.world_coords_predicted.v,
                             pt.world_coords_true.v)
               /\ pt.error_cm >= 0
               /\ (pt.error_cm = 0)
                  <=> (pt.world_coords_predicted.v = pt.world_coords_true.v))
    /\ [][(ret'.op = "add_calibration_point" /\ ~ret'.raised)
          => LET pt == cal'.calibration_points[Len(cal'.calibration_points)]
                 pc == Deproject(cal.camera_intrinsics, pt.pixel_coords.v[1],
                                 pt.pixel_coords.v[2], pt.depth_meters)
                 w  == MatVec4(cal.T_world_camera.v, <<pc[1], pc[2], pc[3], Scale>>)
             IN /\ pt.world_coords_predicted.v
                      = <<w[1] * CM_PER_M, w[2] * CM_PER_M, w[3] * CM_PER_M>>
                /\ ret'.value = Float(pt.error_cm)
         ]_vars

\* the history holds a point with error 0 and a point whose predicted and true
\* positions differ along two axes
C6_Witness ==
    /\ ret.op = "add_calibration_point"
    /\ ~ret.raised
    /\ \E i \in 1..Len(cal.calibration_points) :
          cal.calibration_points[i].error_cm = 0
    /\ \E i \in 1..Len(cal.calibration_points) :
          LET pt == cal.calibration_points[i]
          IN /\ pt.world_coords_predicted.v[1] # pt.world_coords_true.v[1]
             /\ pt.world_coords_predicted.v[3] # pt.world_coords_true.v[3]

\* the mean of the error_cm values of points equals the rational q
IsMeanError(q, points) ==
    q.num * Len(points)
        = SumSeq([i \in 1..Len(points) |-> points[i].error_cm]) * q.den

\* C7: metrics are never stale.  The aggregate error held by the calibrator,
\* and the one written by save_calibration, equals the mean error_cm of the
\* points in the history (of the calibrator, of the file).
C7_MetricsNeverStale ==
    /\ (~IsNone(cal.calibration_error_cm) /\ Len(cal.calibration_points) > 0)
       => IsMeanError(cal.calibration_error_cm.v, cal.calibration_points)
    /\ (/\ ret.op = "save_calibration" /\ ~ret.raised
        /\ ~IsNone(file.data.calibration_error_cm)
        /\ Len(file.data.calibration_points) > 0)
       => IsMeanError(file.data.calibration_error_cm.v, file.data.calibration_points)

\* C8: world-frame conversion before any transform is defined or loaded fails:
\* camera_to_world_coordinates on every point and depth_image_to_world_points
\* on every depth image raise, and return nothing.
C8_TransformNotSet ==
    (/\ ret.op \in {"camera_to_world_coordinates", "depth_image_to_world_points"}
     /\ IsNone(cal.T_world_camera))
    => ret.raised

\* C9: deprojection with unset intrinsics fails with the missing-intrinsics
\* error and returns no point, in WorldFrameCalibrator and in
\* CoordinateTransformer, for every pixel and depth.
C9_MissingIntrinsics ==
    (\/ ret.op = "pixel_to_camera_coordinates" /\ IsNone(cal.camera_intrinsics)
     \/ ret.op = "pixel_to_camera_coords" /\ IsNone(ct.intrinsics))
    => /\ ret.raised
       /\ ret.exc = [t |-> "ValueError", msg |-> "Camera intrinsics not set"]
       /\ IsNone(ret.value)

\* the calibrator, holding a transform but no intrinsics, refused an off-axis pixel
C9_Witness ==
    /\ ret.op = "pixel_to_camera_coordinates"
    /\ IsNone(cal.camera_intrinsics)
    /\ ~IsNone(cal.T_world_camera)
    /\ ret.args = <<2, 1, 3>>
    /\ ret.raised

\* distance in centimetres of the world point w (cm) from the camera
DistanceFromCamera(w) ==
    LET pos == cal.camera_position_world.v
    IN Norm(VecSub(w, <<pos[1] * CM_PER_M, pos[2] * CM_PER_M, pos[3] * CM_PER_M>>))

\* C10: max-distance filter.  No point of the batch output lies farther from
\* the camera than max_distance_cm, off-axis pixels included, and a point of
\* a visited pixel at exactly max_distance_cm is kept.
C10_MaxDistanceFilter ==
    (/\ ret.op = "depth_image_to_world_points"
     /\ ~ret.raised
     /\ ~IsNone(cal.T_world_camera)
     /\ ~IsNone(cal.camera_intrinsics)
     /\ ~IsNone(cal.depth_scale))
    => LET img  == ret.args[1]
           out  == ret.value.v
           maxd == ret.args[3]
           pos  == ScanPositions(Len(img), Len(img[1]), ret.args[2])
       IN /\ \A i \in 1..Len(out) : DistanceFromCamera(out[i]) <= maxd
          /\ \A k \in 1..Len(pos) :
                LET u  == pos[k][1]
                    v  == pos[k][2]
                    dm == img[v + 1][u + 1] * cal.depth_scale.v
                    pc == Deproject(cal.camera_intrinsics, u, v, dm)
                IN (dm # 0 /\ Norm(pc) * CM_PER_M = maxd)
                   => \E i \in 1..Len(out) :
                         out[i] = ApplyTransform(cal.T_world_camera.v, pc, TRUE)

\* a / b rounded up
Ceil(a, b) == (a + b - 1) \div b

\* the k-th pixel <<u, v>> of a row-major scan of every N-th row and column
\* of an image W pixels wide
RowMajorPosition(k, W, N) ==
    <<((k - 1) % Ceil(W, N)) * N, ((k - 1) \div Ceil(W, N)) * N>>

\* C11: batch subsampling.  With subsample = N on an H x W image the batch
\* examines exactly the pixels whose row and column are multiples of N,
\* ceil(H/N) * ceil(W/N) of them (25 for 10 x 10 and N = 2), and lists the
\* points of the pixels it keeps in row-major order (rows outer, columns inner).
C11_BatchSubsampling ==
    (/\ ret.op = "depth_image_to_world_points"
     /\ ~IsNone(cal.T_world_camera)
     /\ ~IsNone(cal.camera_intrinsics)
     /\ ~IsNone(cal.depth_scale))
    => LET img  == ret.args[1]
           N    == ret.args[2]
           maxd == ret.args[3]
           H    == Len(img)
           W    == Len(img[1])
           n    == Ceil(H, N) * Ceil(W, N)
           pos  == [k \in 1..n |-> RowMajorPosition(k, W, N)]
           dm(k) == img[pos[k][2] + 1][pos[k][1] + 1] * cal.depth_scale.v
           kept == SelectSeq([k \in 1..n |-> k],
                             LAMBDA k : dm(k) # 0 /\ dm(k) * CM_PER_M <= maxd)
       IN /\ ~ret.raised
          /\ \A u \in 0..(W - 1), v \in 0..(H - 1) :
                (u % N = 0 /\ v % N = 0) <=> (\E k \in 1..n : pos[k] = <<u, v>>)
          /\ (H = 10 /\ W = 10 /\ N = 2) => n = 25
          /\ ret.value.v =
                [i \in 1..Len(kept) |->
                    ApplyTransform(cal.T_world_camera.v,
                                   Deproject(cal.camera_intrinsics, pos[kept[i]][1],
                                             pos[kept[i]][2], dm(kept[i])),
                                   TRUE)]

\* the 10 x 10 image was sampled with N = 2 and gave 25 different points
C11_Witness ==
    /\ ret.op = "depth_image_to_world_points"
    /\ ret.args[1] = ConstantImage
    /\ ret.args[2] = 2
    /\ ~ret.raised
    /\ Len(ret.value.v) = 25
    /\ Cardinality({ret.value.v[i] : i \in 1..25}) = 25

\* C12: transforming never mutates state.  camera_to_world_coordinates,
\* pixel_to_camera_coordinates and depth_image_to_world_points leave every
\* attribute of the calibrator (transform, rotation, translation, pose,
\* history) as it was, camera_to_world_coords leaves the transformer as it
\* was, and the caller's input point is the same after the call as before.
C12_TransformNeverMutates ==
    [][/\ (ret'.op \in {"camera_to_world_coordinates", "pixel_to_camera_coordinates",
                       "depth_image_to_world_points"})
          => cal' = cal
       /\ (ret'.op = "camera_to_world_coords") => ct' = ct
       /\ (ret'.op \in {"camera_to_world_coordinates", "camera_to_world_coords"})
          => point' = NdArray(ret'.args[1])
      ]_vars

\* a point was converted to centimetres by a calibrator holding a tilted
\* pose: the result differs from the input, the input array does not
C12_Witness ==
    /\ ret.op = "camera_to_world_coordinates"
    /\ ~ret.raised
    /\ ret.args[2]
    /\ ~IsNone(pose) /\ pose.v.tilt = 90
    /\ ret.value.v # ret.args[1]
    /\ point = NdArray(ret.args[1])

\* the rotation and transform a newly constructed calibrator builds from pose p
FreshBuild(p) ==
    LET pos == <<RDiv(p.x, CM_PER_M), RDiv(p.y, CM_PER_M), RDiv(p.h, CM_PER_M)>>
        R   == MatMul(MatMul(MatMul(RotZ(p.roll), RotY(p.pan)), RotX(p.tilt)),
                      R_camera_to_world)
    IN [R |-> R,
        T |-> << <<R[1][1], R[1][2], R[1][3], pos[1]>>,
                 <<R[2][1], R[2][2], R[2][3], pos[2]>>,
                 <<R[3][1], R[3][2], R[3][3], pos[3]>>,
                 <<0, 0, 0, Scale>> >>]

\* C13: the transform is rebuilt wholesale from the pose.  After any sequence
\* of define_simple_overhead_calibration calls the held rotation and 4x4
\* transform are those a fresh build from the most recent pose gives, and
\* after any sequence of update_tilt calls the transformer's rotation is the
\* one a new transformer with the current angles has; defining the pose
\* already held changes neither rotation nor transform.
C13_RebuiltWholesale ==
    /\ [](/\ (~IsNone(pose))
              => /\ cal.rotation_matrix = NdArray(FreshBuild(pose.v).R)
                 /\ cal.T_world_camera = NdArray(FreshBuild(pose.v).T)
          /\ ct.R_cam_to_world
                = NewTransformer(ct.camera_height, ct.pitch_deg, ct.roll_deg,
                                 ct.yaw_deg).R_cam_to_world)
    /\ [][(ret'.op = "define_simple_overhead_calibration" /\ pose' = pose)
          => /\ cal'.rotation_matrix = cal.rotation_matrix
             /\ cal'.T_world_camera = cal.T_world_camera]_vars

\* a tilted, displaced pose was defined, and the transformer's pitch and roll
\* were set by two update_tilt calls
C13_Witness ==
    /\ ret.op = "define_simple_overhead_calibration"
    /\ pose = [t |-> "pose", v |-> PoseC]
    /\ cal.T_world_camera = NdArray(FreshBuild(PoseC).T)
    /\ ct.pitch_deg = 90 /\ ct.roll_deg = 90

\* the 3x3 block of a 4x4 matrix
RotationBlock(T) == [i \in 1..3 |-> [j \in 1..3 |-> T[i][j]]]

\* R times its transpose is the identity
IsOrthonormal(R) ==
    \A i, j \in 1..3 :
        R[i][1] * R[j][1] + R[i][2] * R[j][2] + R[i][3] * R[j][3]
            = IF i = j THEN Scale * Scale ELSE 0

\* determinant of a 3x3 matrix (fixed-point entries: the unit is Scale^3)
Det3(R) ==
    R[1][1] * (R[2][2] * R[3][3] - R[2][3] * R[3][2])
    - R[1][2] * (R[2][1] * R[3][3] - R[2][3] * R[3][1])
    + R[1][3] * (R[2][1] * R[3][2] - R[2][2] * R[3][1])

\* C14: whenever a transform is held, after define_simple_overhead_calibration
\* or load_calibration, its 3x3 rotation block is orthonormal with determinant
\* +1 and its bottom row is [0, 0, 0, 1]; the rotation_matrix attribute is
\* that block.
C14_RigidMotion ==
    (~IsNone(cal.T_world_camera))
    => LET T == cal.T_world_camera.v
           R == RotationBlock(T)
       IN /\ IsOrthonormal(R)
          /\ Det3(R) = Scale * Scale * Scale
          /\ T[4] = <<0, 0, 0, Scale>>
          /\ cal.rotation_matrix.v = R

\* the record has every field load_calibration reads, each of its type:
\* numbers for height, error and depth scale, nested lists for the arrays
StructurallyValid(data) ==
    /\ \A i \in 1..Len(LoadKeys) : LoadKeys[i] \in DOMAIN data
    /\ data.camera_height_cm.t = "float"
    /\ data.camera_position_world.t = "list"
    /\ data.rotation_matrix.t = "list"
    /\ data.translation_vector.t = "list"
    /\ data.transformation_matrix.t = "list"
    /\ data.calibration_error_cm.t = "float"
    /\ data.depth_scale.t = "float"

\* C18: load_calibration of a structurally invalid record, one with a
\* required field missing or a field of the wrong type, fails with an error;
\* it does not complete.
C18_MalformedRecordFails ==
    (/\ ret.op = "load_calibration"
     /\ ~IsNone(file)
     /\ ~StructurallyValid(file.data))
    => ret.raised

\* at least two of the three angles of pose p are non-zero
Compound(p) == Cardinality({a \in {"tilt", "pan", "roll"} : p[a] # 0}) >= 2

IdentityPose ==
    /\ ~IsNone(pose)
    /\ pose.v.h = 0 /\ pose.v.x = 0 /\ pose.v.y = 0
    /\ pose.v.tilt = 0 /\ pose.v.pan = 0 /\ pose.v.roll = 0

\* C16: identity pose.  With height 0, position (0, 0, 0) and all angles 0
\* the transform is the axis flip diag(1, -1, -1) with zero translation, and
\* camera_to_world_coordinates maps (x, y, z) to (x, -y, -z), in particular
\* (0, 0, d) to (0, 0, -d), in metres and (times 100) in centimetres.
C16_IdentityPose ==
    IdentityPose
    => /\ cal.T_world_camera.v = << <<Scale, 0, 0, 0>>, <<0, -Scale, 0, 0>>,
                                    <<0, 0, -Scale, 0>>, <<0, 0, 0, Scale>> >>
       /\ (ret.op = "camera_to_world_coordinates")
          => LET q == ret.args[1]
                 k == IF ret.args[2] THEN CM_PER_M ELSE 1
             IN /\ ~ret.raised
                /\ ret.value.v = <<k * q[1], -(k * q[2]), -(k * q[3])>>

\* under the identity pose the off-axis point (1, 2, 3) went to (1, -2, -3)
C16_Witness ==
    /\ IdentityPose
    /\ ret.op = "camera_to_world_coordinates"
    /\ ret.args = << <<1, 2, 3>>, FALSE >>
    /\ ret.value.v = <<1, -2, -3>>

\* C17: unit handling.  For every transform and camera point p the result of
\* camera_to_world_coordinates(p, return_cm=True) is 100 times the result of
\* camera_to_world_coordinates(p, return_cm=False), component by component,
\* translation included.
C17_UnitFlag ==
    (ret.op = "camera_to_world_coordinates" /\ ~IsNone(cal.T_world_camera))
    => LET q     == ret.args[1]
           other == camera_to_world_coordinates(cal, q, ~ret.args[2])
           cm    == IF ret.args[2] THEN ret.value.v ELSE other.value.v
           m     == IF ret.args[2] THEN other.value.v ELSE ret.value.v
           T     == cal.T_world_camera.v
       IN /\ ~ret.raised /\ ~other.raised
          /\ \A i \in 1..3 :
                /\ cm[i] = CM_PER_M * m[i]
                /\ m[i] = RDiv(T[i][1] * q[1] + T[i][2] * q[2] + T[i][3] * q[3], Scale)
                              + T[i][4]

\* a point was converted to centimetres under a pose with a non-zero position
C17_Witness ==
    /\ ret.op = "camera_to_world_coordinates"
    /\ ret.args = << <<1, 2, 3>>, TRUE >>
    /\ pose = [t |-> "pose", v |-> PoseC]
    /\ ret.value.v = <<(1 + 1) * CM_PER_M, (2 + 3) * CM_PER_M, (3 - 2) * CM_PER_M>>

\* a deprojection result: z is the depth, and the principal point of intr
\* has no lateral offset
CentrePixelProperty(intr) ==
    /\ ret.value.v[3] = ret.args[3]
    /\ (ret.args[1] = intr.ppx /\ ret.args[2] = intr.ppy)
       => ret.value.v = <<0, 0, ret.args[3]>>

\* C19: pinhole centre-pixel property.  For any intrinsics and depth d,
\* deprojecting the principal point (ppx, ppy) gives (0, 0, d), and every
\* deprojected point has z equal to the input depth, in WorldFrameCalibrator
\* and in CoordinateTransformer.
C19_CentrePixel ==
    /\ (ret.op = "pixel_to_camera_coordinates" /\ ~ret.raised)
       => CentrePixelProperty(cal.camera_intrinsics)
    /\ (ret.op = "pixel_to_camera_coords" /\ ~ret.raised)
       => CentrePixelProperty(ct.intrinsics)

\* the principal point of the camera whose principal point is the corner
\* pixel was deprojected at depth 3
C19_Witness ==
    /\ ret.op = "pixel_to_camera_coordinates"
    /\ cal.camera_intrinsics = Intr2
    /\ ret.args = <<0, 0, 3>>
    /\ ret.value.v = <<0, 0, 3>>

\* C20: a failed add_calibration_point leaves the history and every other
\* field of the calibrator unchanged.  The call fails exactly when the
\* intrinsics or the transform are missing, so once the missing piece is
\* supplied the next call succeeds; it then adds one entry to the history
\* as it was before the failed call and changes no other field.
C20_FailedAddLeavesNoTrace ==
    [][(ret'.op = "add_calibration_point")
       => /\ ret'.raised <=> (\/ IsNone(cal.camera_intrinsics)
                              \/ IsNone(cal.T_world_camera))
          /\ ret'.raised => (cal' = cal /\ file' = file)
          /\ ~ret'.raised
             => /\ Len(cal'.calibration_points) = Len(cal.calibration_points) + 1
                /\ [cal' EXCEPT !.calibration_points = cal.calibration_points] = cal
      ]_vars

\* with the camera set up but no pose defined, add_calibration_point was
\* refused for want of a transform and the history is still empty
C20_Witness ==
    /\ ret.op = "add_calibration_point"
    /\ ret.raised
    /\ ret.exc.msg = "Calibration not set"
    /\ ~IsNone(cal.camera_intrinsics)
    /\ cal.calibration_points = <<>>

\* C21: loading is all-or-nothing.  A load_calibration that fails leaves the
\* calibrator's pose, rotation, translation, transform, history and
\* depth_scale exactly as they were before the call.
C21_FailedLoadLeavesCalibrator ==
    [][(ret'.op = "load_calibration" /\ ret'.args = <<>> /\ ret'.raised)
       => /\ cal'.camera_height_cm = cal.camera_height_cm
          /\ cal'.camera_position_world = cal.camera_position_world
          /\ cal'.rotation_matrix = cal.rotation_matrix
          /\ cal'.translation_vector = cal.translation_vector
          /\ cal'.T_world_camera = cal.T_world_camera
          /\ cal'.calibration_points = cal.calibration_points
          /\ cal'.depth_scale = cal.depth_scale
      ]_vars

\* C22: load_calibration completes without raising on every file written by
\* save_calibration, also when the calibrator was saved before
\* validate_calibration was ever called.
C22_LoadOfSavedFile ==
    (ret.op = "load_calibration" /\ ~IsNone(file)) => ~ret.raised

\* C23: the history stays consistent with the held transform.  Each point of
\* the history has world_coords_predicted and error_cm equal to what the
\* transform now held gives for its pixel and depth, also after the pose has
\* been defined again.
C23_HistoryMatchesTransform ==
    (~IsNone(cal.T_world_camera) /\ ~IsNone(cal.camera_intrinsics))
    => \A i \in 1..Len(cal.calibration_points) :
          LET pt == cal.calibration_points[i]
              w  == ApplyTransform(cal.T_world_camera.v,
                                   Deproject(cal.camera_intrinsics,
                                             pt.pixel_coords.v[1],
                                             pt.pixel_coords.v[2], pt.depth_meters),
                                   TRUE)
          IN /\ pt.world_coords_predicted.v = w
             /\ pt.error_cm = Norm(VecSub(w, pt.world_coords_true.v))

\* C24: zero depth is never projected in a batch.  The output of
\* depth_image_to_world_points holds exactly one point for each examined
\* pixel whose raw depth is non-zero and within max_distance_cm, and no point
\* for a pixel whose depth is zero.
C24_ZeroDepthSkipped ==
    (/\ ret.op = "depth_image_to_world_points"
     /\ ~IsNone(cal.T_world_camera)
     /\ ~IsNone(cal.camera_intrinsics)
     /\ ~IsNone(cal.depth_scale))
    => LET img  == ret.args[1]
           N    == ret.args[2]
           maxd == ret.args[3]
           out  == ret.value.v
           H    == Len(img)
           W    == Len(img[1])
           raw(px) == img[px[2] + 1][px[1] + 1]
           examined == {px \in (0..(W - 1)) \X (0..(H - 1)) :
                           px[1] % N = 0 /\ px[2] % N = 0}
           kept == {px \in examined :
                       raw(px) # 0 /\ raw(px) * cal.depth_scale.v * CM_PER_M <= maxd}
           world(px) == LET pc == Deproject(cal.camera_intrinsics, px[1], px[2],
                                            raw(px) * cal.depth_scale.v)
                            w  == MatVec4(cal.T_world_camera.v,
                                          <<pc[1], pc[2], pc[3], Scale>>)
                        IN <<w[1] * CM_PER_M, w[2] * CM_PER_M, w[3] * CM_PER_M>>
       IN /\ ~ret.raised
          /\ Len(out) = Cardinality(kept)
          /\ \A px \in kept : \E i \in 1..Len(out) : out[i] = world(px)
          /\ \A i \in 1..Len(out) : \E px \in kept : out[i] = world(px)
          /\ (\A px \in examined : raw(px) = 0) => out = <<>>

\* an image with two unread pixels and four readings within range gave four
\* points
C24_Witness ==
    /\ ret.op = "depth_image_to_world_points"
    /\ ret.args = << << <<0, 2, 3>>, <<1, 2, 0>> >>, 1, 3 * Scale >>
    /\ ~ret.raised
    /\ Len(ret.value.v) = 4

C29_SaveWithoutCalibration ==
    [][(ret'.op = "save_calibration" /\ IsNone(cal.T_world_camera))
          => (ret'.raised /\ ret'.exc.t = "AttributeError" /\ file' = file)]_vars

\* a save has failed on a calibrator without calibration while a
\* calibration.json was in place, and the file is still the foreign record
C29_Witness ==
    /\ ret.op = "save_calibration" /\ ret.raised
    /\ IsNone(cal.T_world_camera) /\ IsNone(cal.rotation_matrix)
    /\ ~IsNone(file) /\ file.data \in ForeignRecords
    /\ IsNone(saved)
\* the transformer holds the inputs of pose p: the same height, the camera
\* above the world origin, pitch = tilt, yaw = pan, roll = roll
SameInputs(p) ==
    /\ p.x = 0 /\ p.y = 0
    /\ p.h = ct.camera_height * CM_PER_M
    /\ ct.pitch_deg = p.tilt /\ ct.yaw_deg = p.pan /\ ct.roll_deg = p.roll

\* the two numbers have opposite signs
SignDiffers(a, b) == (a < 0 /\ b > 0) \/ (a > 0 /\ b < 0)

\* C27 (as stated): there are identical inputs (height, tilt/pitch, pan/yaw,
\* roll, camera at x = y = 0, the same camera-frame point) for which
\* camera_to_world_coordinates in metres and camera_to_world_coords return
\* points whose Y or Z components have opposite signs; the inputs are those
\* the transformer holds
C27_ImplementationsDisagree ==
    \E p \in TransformPoses, q \in CameraPoints :
        /\ SameInputs(p)
        /\ LET c == define_simple_overhead_calibration(
                        NewCalibrator, p.h, p.x, p.y, p.tilt, p.pan, p.roll)
               a == camera_to_world_coordinates(c, q, FALSE).value.v
               b == camera_to_world_coords(ct, q).value.v
           IN SignDiffers(a[2], b[2]) \/ SignDiffers(a[3], b[3])

\* C27 (amended): when the calibrator and the transformer hold identical
\* inputs, a point converted by either implementation is the point the other
\* implementation returns for it, component by component (so no component
\* differs in sign)
C27_SameInputsSamePoint ==
    (~IsNone(pose) /\ SameInputs(pose.v)) =>
       /\ (ret.op = "camera_to_world_coordinates" /\ ~ret.raised /\ ~ret.args[2])
             => camera_to_world_coords(ct, ret.args[1]).value = ret.value
       /\ (ret.op = "camera_to_world_coords")
             => camera_to_world_coordinates(cal, ret.args[1], FALSE).value = ret.value

\* the transformer has converted an off-axis point under three quarter turns
\* while the calibrator holds the same inputs, and the point has non-zero Y
\* and Z components
C27_Witness ==
    /\ ~IsNone(pose) /\ pose.v = PoseF /\ SameInputs(pose.v)
    /\ ret.op = "camera_to_world_coords" /\ ret.args[1] = <<1, 2, 3>>
    /\ ret.value.v[2] # 0 /\ ret.value.v[3] # 0
\* the click tool has no usable reading at the pixel: no depth frame yet, a
\* depth of 0, or a depth above 10 m
ToolNoReading(px) ==
    \/ IsNone(tool.current_depth)
    \/ ClickDepth(tool, px[1], px[2]) = 0
    \/ ClickDepth(tool, px[1], px[2]) > MAX_CLICK_DEPTH_M * Scale

\* C25: a click on a pixel without a depth reading is skipped by both
\* interactive callers: in the session a click with depth 0 leaves the
\* calibrator, its history included, as it was; in the click tool a click
\* with depth 0, with depth above 10 m or before any depth frame leaves
\* clicked_points as it was
C25_NoReadingNoPoint ==
    [][/\ (/\ session.pc = "loop" /\ session'.it = session.it + 1
           /\ session'.last.key = "click" /\ session'.last.depth = 0)
          => cal' = cal
       /\ (ret'.op = "_process_click" /\ ToolNoReading(ret'.args))
          => tool'.clicked_points = tool.clicked_points]_vars

\* the session has just skipped a click without depth with one point in its
\* history, and the click tool, holding one point, has rejected a click on
\* the pixel that reads just above 10 m
C25_Witness ==
    /\ session.pc = "loop" /\ session.last = NoDepthClick(<<0, 0>>)
    /\ Len(cal.calibration_points) = 1
    /\ ret.op = "_process_click" /\ ret.args = <<2, 1>>
    /\ ~IsNone(tool.current_depth) /\ ClickDepth(tool, 2, 1) > 0
    /\ ToolNoReading(ret.args)
    /\ tool.printed = Str("Invalid depth at pixel")
    /\ Len(tool.clicked_points) = 1

\* C26: a click without depth does not use up a requested point: when the
\* for loop of the session is over, the history holds num_points points
\* minus those skipped with 'q'
C26_SessionCollectsRequested ==
    session.pc \in {"save_choice", "done"}
        => Len(cal.calibration_points) = session.num_points - session.q_skips

\* C30: add_ground_truth with an index outside 0 .. len-1 reports out of
\* range (the message, or Python's IndexError) and changes no clicked point;
\* with a valid index it changes that point only and sets error_total_cm to
\* the distance between the measured and the physical (x, y)
C30_GroundTruthIndexChecked ==
    [][ret'.op = "add_ground_truth" =>
          LET idx == ret'.args[1]
              n   == Len(tool.clicked_points)
          IN IF idx \notin 0..(n - 1)
             THEN /\ tool'.clicked_points = tool.clicked_points
                  /\ \/ ~ret'.raised /\ tool'.printed = Str("out of range")
                     \/ ret'.raised /\ ret'.exc.t = "IndexError"
             ELSE /\ ~ret'.raised
                  /\ Len(tool'.clicked_points) = n
                  /\ \A k \in 1..n : k # idx + 1 =>
                         tool'.clicked_points[k] = tool.clicked_points[k]
                  /\ LET pt == tool'.clicked_points[idx + 1]
                         dx == pt.world_xy_cm.v[1] - ret'.args[2]
                         dy == pt.world_xy_cm.v[2] - ret'.args[3]
                     IN pt.error_total_cm = ISqrt(dx * dx + dy * dy)]_vars
====
